---- MODULE Spec2Model ----
(***************************************************************************)
(* Model of package_slack_jsons_with_report                                *)
(* (src/package_slack_export_with_report.py): the loader, the user / team  *)
(* directory builder, the partitioner, the channel synthesizer, the        *)
(* package emitter and the reconciliation report.                          *)
(*                                                                         *)
(* Python strings that the code compares or parses (the ts values) are     *)
(* sequences of character codes; numbers are kept in tenths of a second.   *)
(* A field that is absent and a field that is the empty string are both    *)
(* "" for user / team / source_team / user_team: the code only ever tests  *)
(* their truthiness or reads them with a '' default.                       *)
(***************************************************************************)
EXTENDS Integers, Sequences, FiniteSets

\* ------------------------------------------------------------------ bounds
\* the most *.json files in the input directory
MaxFiles == 2
\* the most input in the directory: array elements of all the files
\* together, a file without any element counting as one
MaxInputSize == 3

\* ------------------------------------------------------- numbers and text
\* resolution of the float model: values are integers counting 1/Scale s
Scale == 10
\* datetime.utcfromtimestamp(...).strftime('%Y-%m-%d'): one date per 86400 s
SecondsPerDay == 86400

IsDigit(c) == c \in 48..57

RECURSIVE DigitsVal(_)
DigitsVal(s) ==
  IF s = <<>> THEN 0
  ELSE DigitsVal(SubSeq(s, 1, Len(s) - 1)) * 10 + (s[Len(s)] - 48)

AllDigits(s) == \A i \in 1..Len(s) : IsDigit(s[i])

\* float(str): digits with an optional '.' and fraction; -1 stands for
\* ValueError.  The fraction is kept to its first digit.
ParseFloat(s) ==
  LET dots == {i \in 1..Len(s) : s[i] = 46} IN
  IF dots = {} THEN
    IF s # <<>> /\ AllDigits(s) THEN DigitsVal(s) * Scale ELSE -1
  ELSE IF Cardinality(dots) > 1 THEN -1
  ELSE LET d == CHOOSE i \in dots : TRUE
           ip == SubSeq(s, 1, d - 1)
           fp == SubSeq(s, d + 1, Len(s))
       IN IF AllDigits(ip) /\ AllDigits(fp) /\ Len(ip) + Len(fp) > 0
          THEN DigitsVal(ip) * Scale + (IF fp = <<>> THEN 0 ELSE fp[1] - 48)
          ELSE -1

\* str < str in Python: code point by code point, a proper prefix is smaller
RECURSIVE StrLess(_, _)
StrLess(s, t) ==
  IF t = <<>> THEN FALSE
  ELSE IF s = <<>> THEN TRUE
  ELSE IF s[1] # t[1] THEN s[1] < t[1]
  ELSE StrLess(Tail(s), Tail(t))

\* ------------------------------------------------------------- ts values
NoTs == [k |-> "none", v |-> 0, s |-> <<>>]
NumTs(n) == [k |-> "num", v |-> n, s |-> <<>>]
StrTs(str) == [k |-> "str", v |-> 0, s |-> str]

\* truthiness of msg.get('ts'): None, 0 / 0.0 and '' are falsy
Truthy(ts) ==
  CASE ts.k = "none" -> FALSE
    [] ts.k = "num" -> ts.v # 0
    [] OTHER -> ts.s # <<>>

\* float(ts) for a present ts; -1 stands for ValueError
FloatOf(ts) == IF ts.k = "num" THEN ts.v ELSE ParseFloat(ts.s)

\* the sort key float(m.get('ts', 0)); -1 stands for ValueError
SortKey(m) == IF m.ts.k = "none" THEN 0 ELSE FloatOf(m.ts)

\* the date bucket of a parsed ts (the day index stands for 'YYYY-MM-DD',
\* which is one string per day and sorts as the days do)
DateOf(x) == x \div (SecondsPerDay * Scale)

\* ------------------------------------------------------ elements of files
Elem(shape, type, ts, user, prof, team, st, ut) ==
  [shape |-> shape, type |-> type, ts |-> ts, user |-> user,
   has_profile |-> prof, team |-> team, source_team |-> st,
   user_team |-> ut, oid |-> <<0, 0>>]

\* 5 : a JSON number inside the array
ENumber == Elem("number", "", NoTs, "", FALSE, "", "", "")
\* "hello" : a JSON string inside the array
EString == Elem("string", "", NoTs, "", FALSE, "", "", "")
\* {"type": "channel_join"}
EOther == Elem("mapping", "channel_join", NoTs, "", FALSE, "", "", "")
\* ts "9.5", user U1 with a profile, team T1, source_team T2, user_team T2
MsgA == Elem("mapping", "message", StrTs(<<57, 46, 53>>), "U1", TRUE,
             "T1", "T2", "T2")
\* no ts, user U1 without a profile
MsgB == Elem("mapping", "message", NoTs, "U1", FALSE, "", "", "")
\* ts "100.0", user U2 with a profile, team T1
MsgC == Elem("mapping", "message", StrTs(<<49, 48, 48, 46, 48>>), "U2", TRUE,
             "T1", "", "")
\* ts 0 (a JSON number)
MsgD == Elem("mapping", "message", NumTs(0), "", FALSE, "", "", "")
\* ts "abc"
MsgE == Elem("mapping", "message", StrTs(<<97, 98, 99>>), "", FALSE,
             "", "", "")
\* ts "86400.0", the first second of the second day; user U1 with a
\* profile, team T2
MsgF == Elem("mapping", "message", StrTs(<<56, 54, 52, 48, 48, 46, 48>>),
             "U1", TRUE, "T2", "", "")

\* ts 50 (a JSON number)
MsgG == Elem("mapping", "message", NumTs(50 * Scale), "", FALSE, "", "", "")

ElementPool ==
  {ENumber, EString, EOther, MsgA, MsgB, MsgC, MsgD, MsgE, MsgF, MsgG}

\* what json.load gives for one file: an exception, a non-list, or a list
\* of n elements
FileContents(n) ==
  IF n = 0
  THEN {[kind |-> "unreadable", elems |-> <<>>],
        [kind |-> "object", elems |-> <<>>],
        [kind |-> "array", elems |-> <<>>]}
  ELSE {[kind |-> "array", elems |-> q] : q \in [1..n -> ElementPool]}

\* every element of file number k is its own Python object
Stamp(data, k) == [i \in 1..Len(data) |-> [data[i] EXCEPT !.oid = <<k, i>>]]


\* ------------------------------------------------------------------ state
VARIABLES pc, files, messages, users, teams, input_files_info,
          messages_by_date, team_id, created, creator, members,
          output_files_info, temp_dir, archive, report, error

vars == <<pc, files, messages, users, teams, input_files_info,
          messages_by_date, team_id, created, creator, members,
          output_files_info, temp_dir, archive, report, error>>

RECURSIVE SeqSum(_)
SeqSum(q) == IF q = <<>> THEN 0 ELSE q[1] + SeqSum(Tail(q))

RECURSIVE FunSum(_)
FunSum(f) ==
  IF DOMAIN f = {} THEN 0
  ELSE LET d == CHOOSE x \in DOMAIN f : TRUE IN
       f[d] + FunSum([x \in DOMAIN f \ {d} |-> f[x]])

\* --------------------------------------------------------- Step 1: loader
\* 'type' in msg raises TypeError on a number (or null / true / false); on
\* a string it is a substring test, False for "hello"
TypeTestRaises(msg) == msg.shape = "number"

\* 'type' in msg and msg['type'] == 'message'
IsAccepted(msg) == msg.shape = "mapping" /\ msg.type = "message"

UserIds(us) == {us[i].id : i \in 1..Len(us)}

\* the registration test without "user_id not in users"
ShouldRegisterOverwriting(us, msg) == msg.user # "" /\ msg.has_profile

\* user_id and 'user_profile' in msg and user_id not in users
ShouldRegister(us, msg) ==
  msg.user # "" /\ msg.has_profile /\ msg.user \notin UserIds(us)

RegisterUser(us, msg) ==
  IF ShouldRegister(us, msg)
  THEN Append(us, [id |-> msg.user, team_id |-> msg.team])
  ELSE us

\* teams.add(msg.get('team', '')) and the two other fields
AddTeams(ts, msg) == ts \cup {msg.team, msg.source_team, msg.user_team}

\* the body of "for msg in data", from element i on; raised is the exception
\* that leaves the loop, with everything appended so far left in place
RECURSIVE LoadList(_, _, _)
LoadList(acc, data, i) ==
  IF i > Len(data) THEN acc
  ELSE LET msg == data[i] IN
    IF TypeTestRaises(msg) THEN [acc EXCEPT !.raised = TRUE]
    ELSE IF IsAccepted(msg)
    THEN LoadList([messages |-> Append(acc.messages, msg),
                   users |-> RegisterUser(acc.users, msg),
                   teams |-> AddTeams(acc.teams, msg),
                   msg_count |-> acc.msg_count + 1,
                   raised |-> FALSE], data, i + 1)
    ELSE LoadList(acc, data, i + 1)

\* input_files_info[filename] after the try / except of one file
FileCount(kind, acc) ==
  IF kind = "array" /\ ~acc.raised THEN acc.msg_count ELSE 0

\* the size of the input read so far
FileSize(n) == IF n = 0 THEN 1 ELSE n

RECURSIVE InputSize(_)
InputSize(fs) ==
  IF fs = <<>> THEN 0 ELSE FileSize(Len(fs[1].elems)) + InputSize(Tail(fs))

\* one iteration of "for filename in json_files"
LoadFile ==
  /\ pc = "load"
  /\ Len(files) < MaxFiles
  /\ \E n \in {x \in 0..MaxInputSize :
                  InputSize(files) + FileSize(x) <= MaxInputSize} :
     \E c \in FileContents(n) :
       LET k == Len(files) + 1
           data == Stamp(c.elems, k)
           start == [messages |-> messages, users |-> users, teams |-> teams,
                     msg_count |-> 0, raised |-> FALSE]
           acc == IF c.kind = "array" THEN LoadList(start, data, 1) ELSE start
       IN /\ files' = Append(files, [kind |-> c.kind, elems |-> data])
          /\ messages' = acc.messages
          /\ users' = acc.users
          /\ teams' = acc.teams
          /\ input_files_info' = Append(input_files_info, FileCount(c.kind, acc))
  /\ UNCHANGED <<pc, messages_by_date, team_id, created, creator, members,
                 output_files_info, temp_dir, archive, report, error>>

\* the empty-input test left out
NoMessagesNeverTrue(msgs) == FALSE

\* "if not messages"
NoMessages(msgs) == msgs = <<>>

\* the loop is over: raise ValueError("No valid messages ...") or go on
CheckMessages ==
  /\ pc = "load"
  /\ IF NoMessages(messages)
     THEN pc' = "failed" /\ error' = "NoValidMessages"
     ELSE pc' = "sort" /\ error' = error
  /\ UNCHANGED <<files, messages, users, teams, input_files_info,
                 messages_by_date, team_id, created, creator, members,
                 output_files_info, temp_dir, archive, report>>

\* ---------------------------------------------------- Step 2: partitioner
\* an insertion that puts an element before the elements of equal key
RECURSIVE InsertSortedUnstable(_, _)
InsertSortedUnstable(q, m) ==
  IF q = <<>> THEN <<m>>
  ELSE IF SortKey(q[Len(q)]) < SortKey(m) THEN Append(q, m)
  ELSE Append(InsertSortedUnstable(SubSeq(q, 1, Len(q) - 1), m), q[Len(q)])

\* list.sort(key=...): stable, ascending; each element goes behind the
\* elements whose key is not greater
RECURSIVE InsertSorted(_, _)
InsertSorted(q, m) ==
  IF q = <<>> THEN <<m>>
  ELSE IF SortKey(q[Len(q)]) <= SortKey(m) THEN Append(q, m)
  ELSE Append(InsertSorted(SubSeq(q, 1, Len(q) - 1), m), q[Len(q)])

RECURSIVE SortByTs(_)
SortByTs(q) ==
  IF q = <<>> THEN <<>>
  ELSE InsertSorted(SortByTs(SubSeq(q, 1, Len(q) - 1)), q[Len(q)])

\* a key that cannot be computed stops the sort with ValueError
SortRaises(q) == \E i \in 1..Len(q) : SortKey(q[i]) = -1

\* "if ts:" and the try around float(ts): the message gets a bucket
IsBucketed(m) == Truthy(m.ts) /\ FloatOf(m.ts) # -1

\* messages_by_date after the loop over the sorted messages
GroupByDate(q) ==
  LET kept == SelectSeq(q, IsBucketed)
      dates == {DateOf(FloatOf(kept[i].ts)) : i \in 1..Len(kept)}
  IN [d \in dates |->
        SelectSeq(kept, LAMBDA m : DateOf(FloatOf(m.ts)) = d)]

SortAndGroup ==
  /\ pc = "sort"
  /\ IF SortRaises(messages)
     THEN /\ pc' = "crashed"
          /\ error' = "ValueError"
          /\ UNCHANGED <<messages, messages_by_date>>
     ELSE /\ pc' = "synth"
          /\ messages' = SortByTs(messages)
          /\ messages_by_date' = GroupByDate(SortByTs(messages))
          /\ error' = error
  /\ UNCHANGED <<files, users, teams, input_files_info, team_id, created,
                 creator, members, output_files_info, temp_dir, archive,
                 report>>

\* --------------------------------------- Step 3: channel and team synthesis
\* list(teams).count(t): teams is a set, each of its values is there once
TeamCount(ts, t) == Cardinality({u \in ts : u = t})

\* max(teams, key=list(teams).count) returns the first value of the set's
\* iteration order among those with the highest count; the order of a set of
\* strings changes with the interpreter's hash seed
TeamChoices(ts) ==
  IF ts = {} THEN {"T_UNKNOWN"}
  ELSE {t \in ts : \A u \in ts : TeamCount(ts, u) <= TeamCount(ts, t)}

\* (msg['ts'] for msg in messages if msg.get('ts'))
RawTs(q) ==
  LET kept == SelectSeq(q, LAMBDA m : Truthy(m.ts))
  IN [i \in 1..Len(kept) |-> kept[i].ts]

\* x < y between two ts values of one type
TsLess(x, y) == IF x.k = "str" THEN StrLess(x.s, y.s) ELSE x.v < y.v

\* min() compares a str with a number: TypeError
MinRaises(raw) ==
  \E i, j \in 1..Len(raw) : raw[i].k # raw[j].k

\* min(): the first of the smallest values
RECURSIVE PyMin(_)
PyMin(raw) ==
  IF Len(raw) = 1 THEN raw[1]
  ELSE LET best == PyMin(SubSeq(raw, 1, Len(raw) - 1))
           item == raw[Len(raw)]
       IN IF TsLess(item, best) THEN item ELSE best

\* float(min(..., default=0)); -1 stands for ValueError
MinTs(q) == IF RawTs(q) = <<>> THEN 0 ELSE FloatOf(PyMin(RawTs(q)))

\* int(min_ts)
IntOf(x) == x \div Scale

Synthesize ==
  /\ pc = "synth"
  /\ IF MinRaises(RawTs(messages)) \/ MinTs(messages) = -1
     THEN /\ pc' = "crashed"
          /\ error' = IF MinRaises(RawTs(messages)) THEN "TypeError"
                      ELSE "ValueError"
          /\ UNCHANGED <<team_id, created, creator, members>>
     ELSE /\ pc' = "emit"
          /\ team_id' \in TeamChoices(teams)
          /\ created' = IntOf(MinTs(messages))
          /\ creator' = IF users = <<>> THEN "U_UNKNOWN" ELSE users[1].id
          /\ members' = [i \in 1..Len(users) |-> users[i].id]
          /\ error' = error
  /\ UNCHANGED <<files, messages, users, teams, input_files_info,
                 messages_by_date, output_files_info, temp_dir, archive,
                 report>>

\* ------------------------------------------------- Step 4: package emitter
\* the staging directory is made and users.json, channels.json and one
\* file per date are written into it
WriteStaging ==
  /\ pc = "emit"
  /\ pc' = "zip"
  /\ temp_dir' = "exists"
  /\ output_files_info' =
       [d \in DOMAIN messages_by_date |-> Len(messages_by_date[d])]
  /\ UNCHANGED <<files, messages, users, teams, input_files_info,
                 messages_by_date, team_id, created, creator, members,
                 archive, report, error>>

\* the staging directory is zipped; leaving the with block removes it
WriteZip ==
  /\ pc = "zip"
  /\ pc' = "report"
  /\ archive' = [written |-> TRUE, users |-> users, created |-> created,
                 buckets |-> messages_by_date]
  /\ temp_dir' = "removed"
  /\ UNCHANGED <<files, messages, users, teams, input_files_info,
                 messages_by_date, team_id, created, creator, members,
                 output_files_info, report, error>>

\* ------------------------------------------- Step 5: reconciliation report
ReportStatus(total_input_msgs, total_output_msgs) ==
  IF total_input_msgs = total_output_msgs THEN "success" ELSE "warning"

WriteReport ==
  /\ pc = "report"
  /\ pc' = "done"
  /\ report' = ReportStatus(SeqSum(input_files_info),
                            FunSum(output_files_info))
  /\ UNCHANGED <<files, messages, users, teams, input_files_info,
                 messages_by_date, team_id, created, creator, members,
                 output_files_info, temp_dir, archive, error>>

\* ------------------------------------------------------------ the program
NoArchive == [written |-> FALSE, users |-> <<>>, created |-> 0,
              buckets |-> <<>>]

Init ==
  /\ pc = "load"
  /\ files = <<>>
  /\ messages = <<>>
  /\ users = <<>>
  /\ teams = {}
  /\ input_files_info = <<>>
  /\ messages_by_date = <<>>
  /\ team_id = ""
  /\ created = 0
  /\ creator = ""
  /\ members = <<>>
  /\ output_files_info = <<>>
  /\ temp_dir = "none"
  /\ archive = NoArchive
  /\ report = "none"
  /\ error = "none"

Next ==
  \/ LoadFile
  \/ CheckMessages
  \/ SortAndGroup
  \/ Synthesize
  \/ WriteStaging
  \/ WriteZip
  \/ WriteReport

Spec == Init /\ [][Next]_vars

\* ----------------------------------------------------- terms of the claims
\* an element of an input array that is a mapping with type "message"
IsMessageElement(e) == e.shape = "mapping" /\ e.type = "message"

\* the position of an element in the input: file number, then index
OidLess(a, b) == a[1] < b[1] \/ (a[1] = b[1] /\ a[2] < b[2])

\* in how many places of the date buckets the object o is
Occurrences(buckets, o) ==
  Cardinality({<<d, i>> \in UNION {{d} \X (1..Len(buckets[d])) : d \in DOMAIN buckets} :
                 buckets[d][i].oid = o})

TsMissing(m) == m.ts.k = "none"
TsUnparsable(m) == m.ts.k = "str" /\ ParseFloat(m.ts.s) = -1
HasValidTs(m) == ~TsMissing(m) /\ ~TsUnparsable(m)
NumericTs(m) == IF m.ts.k = "num" THEN m.ts.v ELSE ParseFloat(m.ts.s)

Partitioned == pc \in {"synth", "emit", "zip", "report", "done"}
Synthesized == pc \in {"emit", "zip", "report", "done"}
Ended == pc \in {"done", "failed", "crashed"}

\* C1: when the run ends with the success line in the report, every message
\* element of every input array is in exactly one date bucket of the archive
C1_NoMessageLost ==
  (pc = "done" /\ report = "success") =>
    \A k \in 1..Len(files) : \A i \in 1..Len(files[k].elems) :
      IsMessageElement(files[k].elems[i]) =>
        Occurrences(archive.buckets, files[k].elems[i].oid) = 1

\* C2: the per-file counts add up to the number of accepted messages, and a
\* file recorded with count 0 has no message in the accepted sequence
C2_CountsMatchMessages ==
  /\ SeqSum(input_files_info) = Len(messages)
  /\ \A k \in 1..Len(files) :
       input_files_info[k] = 0 =>
         \A i \in 1..Len(messages) : messages[i].oid[1] # k

\* C3: before the sort, the accepted messages that come from an array file are
\* exactly its message elements, in file order, and the file's count is their
\* number, whatever else the file holds
C3_AcceptedIffMessageMapping ==
  pc \in {"load", "sort", "failed"} =>
    \A k \in 1..Len(files) :
      files[k].kind = "array" =>
        /\ SelectSeq(messages, LAMBDA m : m.oid[1] = k)
             = SelectSeq(files[k].elems, IsMessageElement)
        /\ input_files_info[k]
             = Len(SelectSeq(files[k].elems, IsMessageElement))

\* C4: a run that accepted a message with a missing or unparsable ts still
\* ends with the archive and the report written, the messages with a valid
\* ts each in a bucket and the others in none
C4_TsErrorRecoveredLocally ==
  (/\ Ended
   /\ messages # <<>>
   /\ \E i \in 1..Len(messages) :
        TsMissing(messages[i]) \/ TsUnparsable(messages[i])) =>
    /\ pc = "done"
    /\ archive.written
    /\ report # "none"
    /\ \A i \in 1..Len(messages) :
         Occurrences(archive.buckets, messages[i].oid)
           = IF HasValidTs(messages[i]) THEN 1 ELSE 0

\* C5: after partitioning, the bucket sizes add up to the number of accepted
\* messages with a valid numeric ts (zero included), each in one bucket
C5_ValidTsNeverDropped ==
  Partitioned =>
    /\ FunSum([d \in DOMAIN messages_by_date |-> Len(messages_by_date[d])])
         = Cardinality({i \in 1..Len(messages) : HasValidTs(messages[i])})
    /\ \A i \in 1..Len(messages) :
         HasValidTs(messages[i]) =>
           Occurrences(messages_by_date, messages[i].oid) = 1

\* C6: while no message is accepted nothing is written (no archive, no
\* report, no staging directory), and once loading is over such a run has
\* failed with "no valid messages"
C6_NoOutputWithoutMessages ==
  messages = <<>> =>
    /\ ~archive.written
    /\ report = "none"
    /\ temp_dir = "none"
    /\ pc # "load" => (pc = "failed" /\ error = "NoValidMessages")

C6_Witness ==
  /\ pc = "failed"
  /\ error = "NoValidMessages"
  /\ \E k \in 1..Len(files) : files[k].kind = "array" /\ files[k].elems # <<>>
  /\ \E k \in 1..Len(files) : files[k].kind # "array"

FirstOf(u, P(_)) ==
  LET own == {i \in 1..Len(messages) : messages[i].user = u /\ P(messages[i])}
  IN CHOOSE i \in own :
       \A j \in own : j = i \/ OidLess(messages[i].oid, messages[j].oid)

NoDuplicateUsers ==
  \A i, j \in 1..Len(users) : users[i].id = users[j].id => i = j

\* C8 as stated: no id twice, and every registered id had a user_profile on
\* its first accepted message
C8_FirstOccurrenceHadProfile ==
  /\ NoDuplicateUsers
  /\ \A n \in 1..Len(users) :
       messages[FirstOf(users[n].id, LAMBDA m : TRUE)].has_profile

\* C8 amended: no id twice; the registered ids are the non-empty user ids of
\* the accepted messages that carry a user_profile, and an entry is made from
\* the first accepted message of that id that carries one
C8_RegisteredFromFirstProfile ==
  /\ NoDuplicateUsers
  /\ UserIds(users)
       = {messages[i].user : i \in {j \in 1..Len(messages) :
                               messages[j].user # "" /\ messages[j].has_profile}}
  /\ \A n \in 1..Len(users) :
       users[n].team_id
         = messages[FirstOf(users[n].id, LAMBDA m : m.has_profile)].team

\* a registered user whose first accepted message had no user_profile
C8_Witness ==
  /\ Len(users) >= 1
  /\ \E n \in 1..Len(users) :
       ~messages[FirstOf(users[n].id, LAMBDA m : TRUE)].has_profile

\* the smallest numeric ts of the accepted messages that have a usable one
\* (usable as the code reads it: present, not falsy, and a number)
MinNumericTs ==
  LET usable == {i \in 1..Len(messages) :
                   Truthy(messages[i].ts) /\ HasValidTs(messages[i])}
  IN IF usable = {} THEN 0
     ELSE NumericTs(messages[CHOOSE i \in usable :
            \A j \in usable : NumericTs(messages[i]) <= NumericTs(messages[j])])

\* C9: created is the integer floor of the numerically smallest usable ts,
\* and 0 when there is none
C9_CreatedIsFloorOfNumericMin ==
  Synthesized => created = MinNumericTs \div Scale

\* how often t is the team, source_team or user_team of an accepted message
CandidateCount(t) ==
  Cardinality({<<i, f>> \in (1..Len(messages)) \X {"team", "source_team", "user_team"} :
                 messages[i][f] = t})

Candidates ==
  {t \in UNION {{messages[i].team, messages[i].source_team,
                 messages[i].user_team} : i \in 1..Len(messages)} : t # ""}

\* C10: the team id is a most frequent non-empty candidate, and the
\* unknown-team sentinel exactly when there is no candidate
C10_TeamIsMostFrequent ==
  Synthesized =>
    /\ team_id = "T_UNKNOWN" <=> Candidates = {}
    /\ Candidates # {} =>
         /\ team_id \in Candidates
         /\ \A u \in Candidates : CandidateCount(u) <= CandidateCount(team_id)

====
